---------------------------- MODULE Spec2Model ----------------------------
(***************************************************************************)
(* A model of webrtc-figure.py: gather_metrics (the extraction loop over   *)
(* the entries of the loaded JSON mapping), plot_all_metrics,              *)
(* plot_summary_table and the __main__ sequence that calls them.           *)
(*                                                                         *)
(* Representation.                                                         *)
(*  - A metric name, a Style Map key and a "values" payload are sequences  *)
(*    of one-character strings, so that lower(), substring containment,    *)
(*    strip(), split(",") and float() are computed character by character. *)
(*  - A timestamp string is a date-time body followed by a suffix: the     *)
(*    body is either not ISO-8601 (valid = FALSE) or denotes a local time  *)
(*    in microseconds (us); the suffix is "", "Z" or "+00:00".             *)
(*  - A datetime is [us, aware]; a timedelta is an integer (microseconds). *)
(*  - Titles, colors and units are strings (only concatenated/compared).   *)
(***************************************************************************)
EXTENDS Integers, Sequences, FiniteSets, TLC

\* ------------------------------------------------------------- bounds ---

\* Longest "values" payload (in characters) enumerated by SpecEntry.
MaxLen == 5

\* Largest local time (microseconds) of a timestamp enumerated by SpecEntry.
MaxT == 6

\* Largest number of samples of an entry enumerated by SpecEntry.
MaxN == 7

\* Largest number of entries of the JSON mapping enumerated by Spec.
MaxEntries == 2

\* ------------------------------------------------------------ strings ---

\* str.lower() on one character (ASCII letters; every other character is
\* left alone).
LowerChar(c) ==
  CASE c = "A" -> "a" [] c = "B" -> "b" [] c = "C" -> "c" [] c = "D" -> "d"
    [] c = "E" -> "e" [] c = "F" -> "f" [] c = "G" -> "g" [] c = "H" -> "h"
    [] c = "I" -> "i" [] c = "J" -> "j" [] c = "K" -> "k" [] c = "L" -> "l"
    [] c = "M" -> "m" [] c = "N" -> "n" [] c = "O" -> "o" [] c = "P" -> "p"
    [] c = "Q" -> "q" [] c = "R" -> "r" [] c = "S" -> "s" [] c = "T" -> "t"
    [] c = "U" -> "u" [] c = "V" -> "v" [] c = "W" -> "w" [] c = "X" -> "x"
    [] c = "Y" -> "y" [] c = "Z" -> "z" [] OTHER -> c

\* metric_name.lower()
Lower(s) ==
  [i \in 1..Len(s) |-> LowerChar(s[i])]

\* key in s  (substring containment; the empty key is in every string)
Contains(s, key) ==
  \E i \in 0..(Len(s) - Len(key)) :
     \A j \in 1..Len(key) : s[i + j] = key[j]

\* s.strip(chars): drop the leading and the trailing characters in chars.
StripChars(s, chars) ==
  LET keep == {i \in 1..Len(s) : s[i] \notin chars}
  IN  IF keep = {} THEN <<>>
      ELSE LET lo == CHOOSE i \in keep : \A j \in keep : i <= j
               hi == CHOOSE i \in keep : \A j \in keep : j <= i
           IN  SubSeq(s, lo, hi)

\* The whitespace of the modelled alphabet.
Whitespace ==
  {" "}

\* s.split(","): the pieces between the commas (always at least one piece).
RECURSIVE Split(_)
Split(s) ==
  IF \A i \in 1..Len(s) : s[i] # "," THEN <<s>>
  ELSE LET c == CHOOSE i \in 1..Len(s) :
                   s[i] = "," /\ \A j \in 1..(i - 1) : s[j] # ","
       IN  <<SubSeq(s, 1, c - 1)>> \o Split(SubSeq(s, c + 1, Len(s)))

\* The decimal digits of the modelled alphabet.
Digits ==
  {"0", "1", "2", "3", "4", "5", "6", "7", "8", "9"}

DigitValue(c) ==
  CASE c = "0" -> 0 [] c = "1" -> 1 [] c = "2" -> 2 [] c = "3" -> 3
    [] c = "4" -> 4 [] c = "5" -> 5 [] c = "6" -> 6 [] c = "7" -> 7
    [] c = "8" -> 8 [] c = "9" -> 9

\* float(x) accepts x when, with surrounding whitespace removed, it is a
\* number literal: over the modelled alphabet, a non-empty run of digits.
FloatOk(x) ==
  LET t == StripChars(x, Whitespace)
  IN  t # <<>> /\ \A i \in 1..Len(t) : t[i] \in Digits

RECURSIVE Decimal(_)
Decimal(t) ==
  IF t = <<>> THEN 0
  ELSE 10 * Decimal(SubSeq(t, 1, Len(t) - 1)) + DigitValue(t[Len(t)])

\* float(x) for an accepted x.
Float(x) ==
  Decimal(StripChars(x, Whitespace))


\* ---------------------------------------------------------- datetimes ---

\* start_str.replace("Z", "+00:00") on a timestamp string.
ReplaceZ(ts) ==
  [ts EXCEPT !.suffix = IF @ = "Z" THEN "+00:00" ELSE @]

\* datetime.fromisoformat(s) raises ValueError unless the body is an
\* ISO-8601 date-time and the suffix is absent or a UTC offset "+hh:mm".
IsoOk(ts) ==
  ts.valid /\ ts.suffix \in {"", "+00:00"}

\* datetime.fromisoformat(s) for an accepted s: naive without a suffix,
\* timezone-aware (UTC) with the offset "+00:00".
FromIso(ts) ==
  [us |-> ts.us, aware |-> (ts.suffix = "+00:00")]

\* Lines 36-41: the try block succeeds iff both fields are strings (None has
\* no .replace: AttributeError) that fromisoformat accepts after the replace;
\* every exception raised inside it is caught.
TimeParseOk(start_str, end_str) ==
  /\ start_str.t = "str" /\ IsoOk(ReplaceZ(start_str))
  /\ end_str.t = "str"   /\ IsoOk(ReplaceZ(end_str))

\* end_dt - start_dt raises TypeError when exactly one of the two is
\* timezone-aware (line 54, outside every try block).
SubtractOk(end_dt, start_dt) ==
  end_dt.aware = start_dt.aware

\* 2^e mod m, for m >= 1.
RECURSIVE Pow2Mod(_, _)
Pow2Mod(e, m) ==
  IF e = 0 THEN 1 % m ELSE (2 * Pow2Mod(e - 1, m)) % m

\* The least k >= 0 with 2^k * a >= b, for 0 < a <= b.
RECURSIVE BinExp(_, _)
BinExp(a, b) ==
  IF a >= b THEN 0 ELSE 1 + BinExp(2 * a, b)

\* The number of significand bits of a Python float (IEEE-754 binary64).
MantissaBits == 53

\* The sign of float(a / b) - a/b for 0 < a < b: the true division i / (n-1)
\* is correctly rounded to 53 significant bits, ties to even. The 53-bit
\* quotient is q = floor(a * 2^e / b) with e = BinExp(a, b) + 52; only its
\* remainder and its parity are needed, and both are computed modulo b.
FloatDivError(a, b) ==
  LET e == BinExp(a, b) + MantissaBits - 1
      r == (a * Pow2Mod(e, b)) % b
      qodd == ((a * Pow2Mod(e, 2 * b)) % (2 * b)) >= b
  IN  IF r = 0 THEN 0
      ELSE IF 2 * r < b THEN -1
      ELSE IF 2 * r > b THEN 1
      ELSE IF qodd THEN 1 ELSE -1

\* A variant of ScaleDuration: the integer floor division
\* total_duration * i // (n - 1) in place of the float product.
ScaleDurationFloor(d, i, n) ==
  (d * i) \div (n - 1)

\* total_duration * (i / (n - 1)), in microseconds: timedelta.__mul__(float)
\* takes the float's exact integer ratio and divides to the nearest
\* microsecond, ties to even. The float differs from i/(n-1) by a relative
\* 2^-53 at most, which moves the product across a rounding boundary only
\* when d*i/(n-1) lies exactly on a half (durations below 2^40 microseconds):
\* there the sign of the float's error decides.
ScaleDuration(d, i, n) ==
  LET b == n - 1
      num == d * i
      fl == num \div b
      rem == num % b
      err == IF i = 0 \/ i = b THEN 0 ELSE FloatDivError(i, b)
      up == IF d > 0 THEN err > 0 ELSE err < 0
  IN  IF rem = 0 THEN fl
      ELSE IF 2 * rem < b THEN fl
      ELSE IF 2 * rem > b THEN fl + 1
      ELSE IF err = 0 THEN (IF fl % 2 = 0 THEN fl ELSE fl + 1)
      ELSE IF up THEN fl + 1 ELSE fl

\* A variant of TimeAxis: range(len(values) - 1), one timestamp short.
TimeAxisShort(start_dt, end_dt, n) ==
  LET total_duration == end_dt.us - start_dt.us
  IN  [k \in 1..(n - 1) |->
         [us |-> start_dt.us + ScaleDuration(total_duration, k - 1, n),
          aware |-> start_dt.aware]]

\* A variant of TimeAxis: the operands of the subtraction swapped
\* (start_dt - end_dt).
TimeAxisSwapped(start_dt, end_dt, n) ==
  LET total_duration == start_dt.us - end_dt.us
  IN  [k \in 1..n |->
         [us |-> start_dt.us + ScaleDuration(total_duration, k - 1, n),
          aware |-> start_dt.aware]]

\* Lines 54-58: time_axis for n values between start_dt and end_dt.
TimeAxis(start_dt, end_dt, n) ==
  LET total_duration == end_dt.us - start_dt.us
  IN  [k \in 1..n |->
         [us |-> start_dt.us + ScaleDuration(total_duration, k - 1, n),
          aware |-> start_dt.aware]]


\* ---------------------------------------------------------- style map ---

\* The style_map of __main__, in its insertion (= iteration) order.
ProgramStyleMap ==
  <<
    [key |-> <<"r", "o", "u", "n", "d", "t", "r", "i", "p", "t", "i", "m", "e">>,
     title |-> "Round Trip Time", color |-> "#f39c12", unit |-> "ms"],
    [key |-> <<"j", "i", "t", "t", "e", "r">>,
     title |-> "Jitter", color |-> "#c0392b", unit |-> "ms"],
    [key |-> <<"b", "i", "t", "r", "a", "t", "e">>,
     title |-> "Bitrate (Ms)", color |-> "#8e44ad", unit |-> "Kbit/s"],
    [key |-> <<"f", "r", "a", "m", "e", "s", "p", "e", "r", "s", "e", "c", "o", "n", "d">>,
     title |-> "Frames Per Second", color |-> "#2980b9", unit |-> "fps"],
    [key |-> <<"f", "r", "a", "m", "e", "w", "i", "d", "t", "h">>,
     title |-> "Frame Width", color |-> "#27ae60", unit |-> "pixels"],
    [key |-> <<"f", "r", "a", "m", "e", "h", "e", "i", "g", "h", "t">>,
     title |-> "Frame Height", color |-> "#2c3e50", unit |-> "pixels"],
    [key |-> <<"f", "r", "a", "m", "e", "s", "d", "e", "c", "o", "d", "e", "d", "/", "s">>,
     title |-> "Frames Decoded per Second", color |-> "#27ae60", unit |-> "frames/s"]
  >>

\* Another style_map argument of gather_metrics: "jitter" before
\* "roundtriptime".
JitterFirstStyleMap ==
  <<
    [key |-> <<"j", "i", "t", "t", "e", "r">>,
     title |-> "Jitter", color |-> "#c0392b", unit |-> "ms"],
    [key |-> <<"r", "o", "u", "n", "d", "t", "r", "i", "p", "t", "i", "m", "e">>,
     title |-> "Round Trip Time", color |-> "#f39c12", unit |-> "ms"]
  >>

\* The key "roundtriptime" tested at line 61.
RoundTripTime ==
  <<"r", "o", "u", "n", "d", "t", "r", "i", "p", "t", "i", "m", "e">>

\* ------------------------------------------------------ gather_metrics ---

\* A variant of MatchKey: the loop over the keys without its break, so
\* that the last matching key wins.
MatchKeyLast(sm, metric_name) ==
  LET hits == {k \in 1..Len(sm) : Contains(Lower(metric_name), sm[k].key)}
  IN  IF hits = {} THEN 0
      ELSE CHOOSE k \in hits : \A h \in hits : h <= k

\* Lines 25-29: the index in style_map of the first key that is a substring
\* of metric_name.lower(); 0 when there is none (match_key stays None).
MatchKey(sm, metric_name) ==
  LET hits == {k \in 1..Len(sm) : Contains(Lower(metric_name), sm[k].key)}
  IN  IF hits = {} THEN 0
      ELSE CHOOSE k \in hits : \A h \in hits : k <= h

\* Line 30: "not match_key" holds for None and for the empty key.
NoMatch(sm, m) ==
  m = 0 \/ sm[m].key = <<>>

\* Line 35: metric_info.get("values", "[]").
RawValues(metric_info) ==
  IF metric_info.values.t = "absent" THEN [t |-> "str", s |-> <<"[", "]">>]
  ELSE metric_info.values

\* Line 43: raw_values.strip("[]").strip()
ValuesStr(raw) ==
  StripChars(StripChars(raw, {"[", "]"}), Whitespace)

\* Lines 46-50: float() of every piece raises ValueError on a bad piece.
ValuesOk(values_str) ==
  \A k \in 1..Len(Split(values_str)) : FloatOk(Split(values_str)[k])

\* Line 47: values = [float(x) for x in values_str.split(",")]
ParseValues(values_str) ==
  [k \in 1..Len(Split(values_str)) |-> Float(Split(values_str)[k])]

\* A variant of Title: the test of line 61 made on the match key instead
\* of the metric name.
TitleByKey(sm, m, metric_name, metric_info) ==
  LET stats_type == IF metric_info.statsType.t = "absent" THEN ""
                    ELSE metric_info.statsType.s
  IN  IF sm[m].key = RoundTripTime /\ stats_type # ""
      THEN sm[m].title \o " (" \o stats_type \o ")"
      ELSE sm[m].title

\* Lines 60-68: the plot title.
Title(sm, m, metric_name, metric_info) ==
  LET stats_type == IF metric_info.statsType.t = "absent" THEN ""
                    ELSE metric_info.statsType.s
  IN  IF Contains(Lower(metric_name), RoundTripTime) /\ stats_type # ""
      THEN sm[m].title \o " (" \o stats_type \o ")"
      ELSE sm[m].title

RECURSIVE Sum(_)
Sum(values) ==
  IF values = <<>> THEN 0 ELSE Sum(Tail(values)) + Head(values)

\* Line 70: sum(values) / len(values), kept as the exact quotient num/den.
Average(values) ==
  [num |-> Sum(values), den |-> Len(values)]

\* Lines 71-78: the record appended for an accepted entry.
Record(sm, m, metric_name, metric_info, start_dt, end_dt, values) ==
  [time_axis |-> TimeAxis(start_dt, end_dt, Len(values)),
   values    |-> values,
   title     |-> Title(sm, m, metric_name, metric_info),
   y_label   |-> sm[m].unit,
   color     |-> sm[m].color,
   average   |-> Average(values)]

\* Line 51.
TooFew(values) ==
  Len(values) < 2

\* Lines 31, 45, 52: continue.
Skip ==
  [kind |-> "skip", out |-> <<>>, printed |-> <<>>]

\* A variant of SkipLogged: the except clause without its print.
SkipSilent(msg, metric_name) ==
  [kind |-> "skip", out |-> <<>>, printed |-> <<>>]

\* Lines 39-41 and 48-50: print the diagnostic, then continue.
SkipLogged(msg, metric_name) ==
  [kind |-> "skip", out |-> <<>>,
   printed |-> <<[msg |-> msg, name |-> metric_name]>>]

\* An exception raised outside the try blocks (lines 43 and 54).
Raise ==
  [kind |-> "raise", out |-> <<>>, printed |-> <<>>]

\* Lines 25-78: one iteration of the loop over data.items(). The result is
\* "skip" (a continue), "record" (out holds the appended record) or "raise"
\* (an exception leaves gather_metrics), with the lines printed.
Body(sm, metric_name, metric_info) ==
  LET m == MatchKey(sm, metric_name)
      start_str == metric_info.startTime
      end_str == metric_info.endTime
      raw_values == RawValues(metric_info)
      start_dt == FromIso(ReplaceZ(start_str))
      end_dt == FromIso(ReplaceZ(end_str))
      values_str == ValuesStr(raw_values.s)
      values == ParseValues(values_str)
  IN  IF NoMatch(sm, m) THEN Skip
      ELSE IF ~TimeParseOk(start_str, end_str)
        THEN SkipLogged("Error parsing time for", metric_name)
      ELSE IF raw_values.t # "str" THEN Raise
      ELSE IF values_str = <<>> THEN Skip
      ELSE IF ~ValuesOk(values_str)
        THEN SkipLogged("Error parsing numeric values for", metric_name)
      ELSE IF TooFew(values) THEN Skip
      ELSE IF ~SubtractOk(end_dt, start_dt) THEN Raise
      ELSE [kind |-> "record",
            out |-> <<Record(sm, m, metric_name, metric_info,
                             start_dt, end_dt, values)>>,
            printed |-> <<>>]


\* Lines 23-79 as a function of the arguments: the records accumulated and
\* whether an exception left the loop (at the first entry that raises).
RECURSIVE GatherMetrics(_, _)
GatherMetrics(sm, d) ==
  IF d = <<>> THEN [metrics |-> <<>>, raised |-> FALSE]
  ELSE LET r == Body(sm, d[1].name, d[1].info)
       IN  IF r.kind = "raise" THEN [metrics |-> <<>>, raised |-> TRUE]
           ELSE LET rest == GatherMetrics(sm, Tail(d))
                IN  [metrics |-> r.out \o rest.metrics,
                     raised |-> rest.raised]

\* --------------------------------------------------------------- state ---

VARIABLES
  style_map,   \* the style_map argument of gather_metrics
  data,        \* the loaded mapping, as the sequence data.items()
  idx,         \* the number of entries the loop has gone through
  metrics,     \* the list metrics of gather_metrics, then of __main__
  printed,     \* the lines printed so far
  windows,     \* the figures shown so far
  pc           \* "gather" (in the loop), "raised" (an exception left
               \* gather_metrics), "plot_all", "plot_table", "done",
               \* "table_raised" (an exception left plot_summary_table)

vars ==
  <<style_map, data, idx, metrics, printed, windows, pc>>

\* A variant of Iterate: a skipped entry ends the loop (break in place of
\* continue).
IterateBreaks ==
  /\ pc = "gather"
  /\ idx < Len(data)
  /\ LET r == Body(style_map, data[idx + 1].name, data[idx + 1].info)
     IN  /\ metrics' = metrics \o r.out
         /\ printed' = printed \o r.printed
         /\ pc' = IF r.kind = "raise" THEN "raised" ELSE "gather"
         /\ idx' = IF r.kind = "skip" THEN Len(data) ELSE idx + 1
  /\ UNCHANGED <<style_map, data, windows>>

\* Lines 24-78: the loop takes the next entry of data.items().
Iterate ==
  /\ pc = "gather"
  /\ idx < Len(data)
  /\ LET r == Body(style_map, data[idx + 1].name, data[idx + 1].info)
     IN  /\ metrics' = metrics \o r.out
         /\ printed' = printed \o r.printed
         /\ pc' = IF r.kind = "raise" THEN "raised" ELSE "gather"
  /\ idx' = idx + 1
  /\ UNCHANGED <<style_map, data, windows>>

\* Lines 79 and 161: the loop is over; metrics is returned to __main__.
Return ==
  /\ pc = "gather"
  /\ idx = Len(data)
  /\ pc' = "plot_all"
  /\ UNCHANGED <<style_map, data, idx, metrics, printed, windows>>

\* Lines 95-124: one row (subplot) per record, in list order; only the
\* bottom row shows the x axis.
ChartRows(mets) ==
  [k \in 1..Len(mets) |->
     [title |-> mets[k].title, y_label |-> mets[k].y_label,
      color |-> mets[k].color, points |-> Len(mets[k].values),
      xaxis |-> (k = Len(mets))]]

\* A variant of PlotAllMetrics: the empty list prints the diagnostic but
\* does not return, and the figure is made all the same.
PlotAllMetricsNoReturn ==
  /\ pc = "plot_all"
  /\ printed' = IF Len(metrics) = 0
                  THEN Append(printed,
                         [msg |-> "No matching metrics found.", name |-> <<>>])
                  ELSE printed
  /\ windows' = Append(windows,
                   [kind |-> "chart", rows |-> ChartRows(metrics)])
  /\ pc' = "plot_table"
  /\ UNCHANGED <<style_map, data, idx, metrics>>

\* Lines 81-127 (called at line 162).
PlotAllMetrics ==
  /\ pc = "plot_all"
  /\ IF Len(metrics) = 0
       THEN /\ printed' = Append(printed,
                 [msg |-> "No matching metrics found.", name |-> <<>>])
            /\ windows' = windows
       ELSE /\ windows' = Append(windows,
                 [kind |-> "chart", rows |-> ChartRows(metrics)])
            /\ printed' = printed
  /\ pc' = "plot_table"
  /\ UNCHANGED <<style_map, data, idx, metrics>>

\* Lines 133-136: summary_data.
SummaryData(mets) ==
  [k \in 1..Len(mets) |->
     [title |-> mets[k].title, average |-> mets[k].average,
      y_label |-> mets[k].y_label]]

\* Lines 129-145 (called at line 163). With no record, ax.table is handed an
\* empty cellText: whether the plotting library then draws an empty table or
\* raises is left open (both outcomes are allowed).
PlotSummaryTable ==
  /\ pc = "plot_table"
  /\ \/ /\ windows' = Append(windows,
             [kind |-> "table", rows |-> SummaryData(metrics)])
        /\ pc' = "done"
     \/ /\ Len(metrics) = 0
        /\ windows' = windows
        /\ pc' = "table_raised"
  /\ UNCHANGED <<style_map, data, idx, metrics, printed>>

Next ==
  \/ Iterate
  \/ Return
  \/ PlotAllMetrics
  \/ PlotSummaryTable

\* -------------------------------------------------------------- inputs ---

\* Timestamp fields: absent (metric_info.get gives None), not ISO-8601,
\* naive, "Z"-suffixed, "+00:00"-suffixed.
TAbsent ==
  [t |-> "absent", valid |-> FALSE, us |-> 0, suffix |-> ""]

TBad ==
  [t |-> "str", valid |-> FALSE, us |-> 0, suffix |-> ""]

TN(u) ==
  [t |-> "str", valid |-> TRUE, us |-> u, suffix |-> ""]

TZ(u) ==
  [t |-> "str", valid |-> TRUE, us |-> u, suffix |-> "Z"]

TOff(u) ==
  [t |-> "str", valid |-> TRUE, us |-> u, suffix |-> "+00:00"]

\* "values" fields: absent, JSON null (or any other non-string), a string.
VAbsent ==
  [t |-> "absent", s |-> <<>>]

VNull ==
  [t |-> "null", s |-> <<>>]

VS(s) ==
  [t |-> "str", s |-> s]

\* "statsType" fields.
SAbsent ==
  [t |-> "absent", s |-> ""]

SS(s) ==
  [t |-> "str", s |-> s]

Info(st, en, v, ty) ==
  [startTime |-> st, endTime |-> en, values |-> v, statsType |-> ty]

Names ==
  { <<"J", "i", "t", "t", "e", "r">>,
    <<"j", "i", "t", "t", "e", "r", "_", "R", "o", "u", "n", "d", "T", "r", "i", "p", "T", "i", "m", "e">>,
    <<"f", "p", "s", "_", "i", "n">> }

StyleMaps ==
  {ProgramStyleMap, JitterFirstStyleMap}

\* The payloads of Spec: one per path through the loop body, and every
\* statsType on the accepted payload.
Infos ==
  {Info(TZ(0), TZ(2), VS(<<"[", "1", ",", "2", "]">>), ty) :
       ty \in {SAbsent, SS(""), SS("candidate-pair")}}
  \cup
  {Info(p[1], p[2], p[3], SS("candidate-pair")) :
       p \in { <<TN(0), TN(1), VS(<<"[", "2", ",", "1", ",", "2", "]">>)>>,
               <<TAbsent, TZ(2), VS(<<"[", "1", ",", "2", "]">>)>>,
               <<TZ(0), TBad, VS(<<"[", "1", ",", "2", "]">>)>>,
               <<TZ(0), TN(2), VS(<<"[", "1", ",", "2", "]">>)>>,
               <<TZ(0), TN(2), VS(<<"[", "1", "]">>)>>,
               <<TZ(0), TZ(2), VS(<<"[", "]">>)>>,
               <<TZ(0), TZ(2), VS(<<"[", "1", "]">>)>>,
               <<TZ(0), TZ(2), VS(<<"[", "1", ",", "x", "]">>)>>,
               <<TZ(0), TZ(2), VNull>>,
               <<TZ(0), TZ(2), VAbsent>> }}

\* The mappings of at most n entries with pairwise distinct keys, as
\* sequences of items.
Mappings(names, infos, n) ==
  UNION { {d \in [1..k -> [name : names, info : infos]] :
              \A i, j \in 1..k : i # j => d[i].name # d[j].name} :
          k \in 0..n }

\* The state at line 24, for the given style_map and loaded data.
Start(sm, d) ==
  /\ style_map = sm
  /\ data = d
  /\ idx = 0
  /\ metrics = <<>>
  /\ printed = <<>>
  /\ windows = <<>>
  /\ pc = "gather"

Init ==
  \E sm \in StyleMaps, d \in Mappings(Names, Infos, MaxEntries) :
     Start(sm, d)

Spec ==
  Init /\ [][Next]_vars

\* The strings of at most n characters over the alphabet.
Strings(alphabet, n) ==
  UNION {[1..k -> alphabet] : k \in 0..n}

ValuesAlphabet ==
  {"[", "]", " ", ",", "1", "2", "x"}

\* gather_metrics on one matching entry whose "values" is any string of at
\* most MaxLen characters (and also absent or null), with timestamps that
\* parse, that do not parse, and that parse but cannot be subtracted.
InitValues ==
  \E v \in {VAbsent, VNull}
           \cup {VS(s) : s \in Strings(ValuesAlphabet, MaxLen)},
     tp \in {<<TZ(0), TZ(1)>>, <<TZ(0), TN(1)>>, <<TAbsent, TZ(1)>>} :
     Start(ProgramStyleMap,
           <<[name |-> <<"J", "i", "t", "t", "e", "r">>,
              info |-> Info(tp[1], tp[2], v, SAbsent)]>>)

\* The payload "1,1,...,1" of n samples.
Samples(n) ==
  [k \in 1..(2 * n - 1) |-> IF k % 2 = 1 THEN "1" ELSE ","]

TimeStrings ==
  {TAbsent, TBad}
  \cup {TN(u) : u \in 0..MaxT}
  \cup {TZ(u) : u \in 0..MaxT}
  \cup {TOff(u) : u \in 0..MaxT}

\* gather_metrics on one matching entry of 1..MaxN samples whose startTime
\* and endTime are any two timestamp fields.
InitTime ==
  \E st \in TimeStrings, en \in TimeStrings, n \in 1..MaxN :
     Start(ProgramStyleMap,
           <<[name |-> <<"J", "i", "t", "t", "e", "r">>,
              info |-> Info(st, en, VS(Samples(n)), SAbsent)]>>)

InitEntry ==
  InitValues \/ InitTime

\* gather_metrics, then the two renderers, on a mapping of one entry.
SpecEntry ==
  InitEntry /\ [][Next]_vars


\* ---------------------------------------------------------- properties ---

\* The entry's lowercased name contains some key of the style map.
Matched(sm, e) ==
  \E k \in 1..Len(sm) :
     sm[k].key # <<>> /\ Contains(Lower(e.name), sm[k].key)

\* Both timestamps of the entry parse.
TimesParse(e) ==
  TimeParseOk(e.info.startTime, e.info.endTime)

\* The parsed startTime and endTime of an entry whose timestamps parse.
StartOf(e) ==
  FromIso(ReplaceZ(e.info.startTime))

EndOf(e) ==
  FromIso(ReplaceZ(e.info.endTime))

\* The entry's "values" is a string (the default "[]" when absent).
HasPayload(e) ==
  e.info.values.t \in {"absent", "str"}

\* What is left of the payload once brackets and whitespace are stripped.
Payload(e) ==
  ValuesStr(RawValues(e.info).s)

\* The payload is empty.
EmptyPayload(e) ==
  HasPayload(e) /\ Payload(e) = <<>>

\* The payload is not empty and one of its comma-separated pieces is not a
\* number.
MalformedPayload(e) ==
  HasPayload(e) /\ Payload(e) # <<>> /\ ~ValuesOk(Payload(e))

\* The payload parses, to fewer than 2 values.
ShortPayload(e) ==
  /\ HasPayload(e) /\ Payload(e) # <<>> /\ ValuesOk(Payload(e))
  /\ Len(ParseValues(Payload(e))) < 2

\* The payload is well-formed: it parses to at least 2 values.
GoodPayload(e) ==
  /\ HasPayload(e) /\ Payload(e) # <<>> /\ ValuesOk(Payload(e))
  /\ Len(ParseValues(Payload(e))) >= 2

\* The entry's statsType ("" when absent).
StatsOf(e) ==
  IF e.info.statsType.t = "absent" THEN "" ELSE e.info.statsType.s

\* The loop drops the entry with a continue.
Dropped(sm, e) ==
  \/ ~Matched(sm, e)
  \/ ~TimesParse(e)
  \/ EmptyPayload(e)
  \/ MalformedPayload(e)
  \/ ShortPayload(e)

\* A step of the loop that appends a record for the entry data[idx + 1].
Appends ==
  /\ pc = "gather"
  /\ idx' = idx + 1
  /\ Len(metrics') = Len(metrics) + 1

\* The record appended by such a step.
Appended ==
  metrics'[Len(metrics')]

\* d without its k-th item.
RemoveAt(d, k) ==
  SubSeq(d, 1, k - 1) \o SubSeq(d, k + 1, Len(d))

NonDecreasing(axis) ==
  \A i, j \in 1..Len(axis) : i < j => axis[i].us <= axis[j].us

\* The chart windows shown so far.
Charts ==
  SelectSeq(windows, LAMBDA w : w.kind = "chart")

NoMatchLine ==
  [msg |-> "No matching metrics found.", name |-> <<>>]

\* C1 (as stated): no exception ever leaves gather_metrics, whatever is wrong
\* with an entry's startTime, endTime or values.
C1_NeverRaises ==
  pc # "raised"

\* C2: every record has as many timestamps as values, and at least 2; an
\* entry whose payload holds no comma (zero values or one value) or is absent
\* yields no record.
C2_RecordLengths ==
  /\ \A k \in 1..Len(metrics) :
        /\ Len(metrics[k].time_axis) = Len(metrics[k].values)
        /\ Len(metrics[k].values) >= 2
  /\ \A k \in 1..idx :
        ( \/ data[k].info.values.t = "absent"
          \/ /\ data[k].info.values.t = "str"
             /\ \A i \in 1..Len(data[k].info.values.s) :
                   data[k].info.values.s[i] # "," )
        => metrics = <<>>

C2_Witness ==
  /\ pc = "plot_all"
  /\ data[1].info.values = VS(<<"[", "1", ",", "2", "]">>)
  /\ Len(metrics) = 1
  /\ metrics[1].values = <<1, 2>>
  /\ Len(metrics[1].time_axis) = 2

\* C3 (as stated): the time_axis of every record is non-decreasing, for
\* every pair of timestamps the loop accepts.
C3_AxisNonDecreasing ==
  \A k \in 1..Len(metrics) : NonDecreasing(metrics[k].time_axis)

\* C3 (amended): the time_axis of the record of an entry whose parsed
\* startTime is not later than its parsed endTime is non-decreasing.
C3_AxisNonDecreasingForward ==
  (Len(metrics) = 1 /\ StartOf(data[1]).us <= EndOf(data[1]).us)
     => NonDecreasing(metrics[1].time_axis)

C3_Witness ==
  /\ Len(metrics) = 1
  /\ StartOf(data[1]).us < EndOf(data[1]).us
  /\ Len(metrics[1].time_axis) >= 3
  /\ metrics[1].time_axis[1].us < metrics[1].time_axis[2].us

\* C4 (as stated): once gather_metrics is over there is exactly one record
\* for each entry that matches a key and whose payload is well-formed (both
\* timestamps parse, at least 2 values parse), none for the others, and never
\* more records than entries.
C4_OneRecordPerEntry ==
  pc # "gather" =>
    /\ Len(metrics) =
         Cardinality({k \in 1..Len(data) :
                         /\ Matched(style_map, data[k])
                         /\ TimesParse(data[k])
                         /\ GoodPayload(data[k])})
    /\ Len(metrics) <= Len(data)

\* C5 (as stated): the title of the record of an entry is the title of the
\* entry's match key, followed by " (<statsType>)" exactly when that match
\* key is "roundtriptime" and statsType is not empty.
C5_TitleByMatchKey ==
  [][Appends =>
       LET e == data[idx + 1]
           m == MatchKey(style_map, e.name)
       IN  Appended.title =
             IF style_map[m].key = RoundTripTime /\ StatsOf(e) # ""
               THEN style_map[m].title \o " (" \o StatsOf(e) \o ")"
               ELSE style_map[m].title]_vars

\* C5 (amended): the title is the title of the entry's match key, followed
\* by " (<statsType>)" exactly when the lowercased entry name contains
\* "roundtriptime" and statsType is not empty.
C5_TitleByName ==
  [][Appends =>
       LET e == data[idx + 1]
           m == MatchKey(style_map, e.name)
       IN  Appended.title =
             IF Contains(Lower(e.name), RoundTripTime) /\ StatsOf(e) # ""
               THEN style_map[m].title \o " (" \o StatsOf(e) \o ")"
               ELSE style_map[m].title]_vars

C5_Witness ==
  /\ style_map = JitterFirstStyleMap
  /\ idx >= 1
  /\ Contains(Lower(data[1].name), RoundTripTime)
  /\ Len(metrics) >= 1
  /\ metrics[1].title = "Jitter (candidate-pair)"

\* C6: dropping an entry leaves no trace: at every point of the run the
\* records accumulated are those of the entries gone through, in their order,
\* and they are (with the same outcome, returned or raised) what the loop
\* yields on the same entries with any one dropped entry removed.
C6_DroppedEntryNoEffect ==
  LET prefix == SubSeq(data, 1, idx)
      now == [metrics |-> metrics, raised |-> (pc = "raised")]
  IN  /\ now = GatherMetrics(style_map, prefix)
      /\ \A k \in 1..idx :
            Dropped(style_map, data[k])
               => GatherMetrics(style_map, RemoveAt(prefix, k)) = now

C6_Witness ==
  /\ pc = "plot_all"
  /\ Len(data) = 2
  /\ Matched(style_map, data[1])
  /\ MalformedPayload(data[1])
  /\ TimesParse(data[1])
  /\ Len(metrics) = 1
  /\ printed # <<>>

\* C7 (on a mapping of one entry, data[1]): the first timestamp of a record
\* is the parsed startTime, the last is
\* the parsed endTime, and timestamp i is start + (end - start) * i/(N-1) to
\* the nearest microsecond.
C7_Interpolation ==
  \A k \in 1..Len(metrics) :
     LET st == StartOf(data[1])
         en == EndOf(data[1])
         axis == metrics[k].time_axis
         n == Len(axis)
     IN  /\ axis[1] = st
         /\ axis[n] = en
         /\ \A i \in 1..n :
               LET dev == (n - 1) * (axis[i].us - st.us)
                            - (en.us - st.us) * (i - 1)
               IN  2 * dev <= n - 1 /\ -2 * dev <= n - 1

C7_Witness ==
  /\ Len(metrics) = 1
  /\ Len(metrics[1].time_axis) = 7
  /\ EndOf(data[1]).us - StartOf(data[1]).us = 3
  /\ metrics[1].time_axis[7] = EndOf(data[1])

\* C8: plot_all_metrics on the empty list prints the diagnostic and shows no
\* chart window; on n records it shows exactly one chart window of n rows,
\* one per record in list order; no chart is shown before it is called nor
\* when gather_metrics raised.
C8_ChartWindows ==
  /\ pc \in {"gather", "raised", "plot_all"} => Charts = <<>>
  /\ pc \in {"plot_table", "done", "table_raised"} =>
       IF metrics = <<>>
         THEN /\ Charts = <<>>
              /\ printed # <<>>
              /\ printed[Len(printed)] = NoMatchLine
         ELSE /\ Len(Charts) = 1
              /\ Len(Charts[1].rows) = Len(metrics)
              /\ \A k \in 1..Len(metrics) :
                    /\ Charts[1].rows[k].title = metrics[k].title
                    /\ Charts[1].rows[k].y_label = metrics[k].y_label
                    /\ Charts[1].rows[k].color = metrics[k].color
                    /\ Charts[1].rows[k].points = Len(metrics[k].values)
              /\ \A j \in 1..Len(printed) : printed[j] # NoMatchLine

C8_Witness ==
  /\ pc = "done"
  /\ Len(metrics) = 2
  /\ metrics[1].title # metrics[2].title
  /\ Len(Charts) = 1
  /\ Len(Charts[1].rows) = 2

\* C9: the record of an entry takes its base title, its color and its
\* y_label from one Style Entry: that of the first key, in the order of the
\* style map, that is a substring of the lowercased name.
C9_FirstMatchWins ==
  [][Appends =>
       LET e == data[idx + 1]
       IN  \E k \in 1..Len(style_map) :
              /\ Contains(Lower(e.name), style_map[k].key)
              /\ \A j \in 1..(k - 1) :
                    ~Contains(Lower(e.name), style_map[j].key)
              /\ Appended.color = style_map[k].color
              /\ Appended.y_label = style_map[k].unit
              /\ Appended.title \in
                    {style_map[k].title,
                     style_map[k].title \o " (" \o StatsOf(e) \o ")"}]_vars

C9_Witness ==
  /\ style_map = ProgramStyleMap
  /\ idx >= 1
  /\ Contains(Lower(data[1].name), RoundTripTime)
  /\ Contains(Lower(data[1].name), JitterFirstStyleMap[1].key)
  /\ Len(metrics) >= 1
  /\ metrics[1].color = ProgramStyleMap[1].color
  /\ metrics[1].title = "Round Trip Time (candidate-pair)"

\* C10 (as stated): a matched entry with parsable timestamps whose payload is
\* empty or malformed is skipped, and a diagnostic is printed for it.
C10_SkipsAreLogged ==
  \A k \in 1..idx :
     ( /\ Matched(style_map, data[k])
       /\ TimesParse(data[k])
       /\ EmptyPayload(data[k]) \/ MalformedPayload(data[k]) )
     => /\ metrics = <<>>
        /\ pc # "raised"
        /\ \E j \in 1..Len(printed) : printed[j].name = data[k].name

\* C10 (amended): such an entry is skipped; a diagnostic is printed for it
\* when the payload is malformed, and nothing is printed for it when the
\* payload is empty.
C10_MalformedLoggedEmptySilent ==
  \A k \in 1..idx :
     (Matched(style_map, data[k]) /\ TimesParse(data[k])) =>
        /\ MalformedPayload(data[k]) =>
              /\ metrics = <<>>
              /\ pc # "raised"
              /\ printed # <<>>
              /\ printed[1] = [msg |-> "Error parsing numeric values for",
                               name |-> data[k].name]
        /\ EmptyPayload(data[k]) =>
              /\ metrics = <<>>
              /\ pc # "raised"
              /\ \A j \in 1..Len(printed) : printed[j] = NoMatchLine

C10_Witness ==
  /\ idx = 1
  /\ TimesParse(data[1])
  /\ data[1].info.values = VS(<<"[", "1", ",", "x", "]">>)
  /\ pc = "gather"
  /\ Len(printed) = 1

=============================================================================
